---- MODULE Spec2Model ----
(***************************************************************************)
(* Model of src/app.py: the address extractor's crawl-and-extract pipeline *)
(* (find_subpages, fetch_page_text, gpt_extract_chunked_text,              *)
(* process_url_full) and the thread-pool batch runner process_all.         *)
(*                                                                         *)
(* Python strings are sequences of one-character strings.  Python values   *)
(* are records [t |-> type name, s |-> characters of a str, n |-> number   *)
(* of an int, items |-> items of a list].                                  *)
(***************************************************************************)
EXTENDS Integers, Sequences, FiniteSets, TLC

VARIABLES
    \* process_all
    urls,       \* df["URL"].tolist()
    fut,        \* state of the future submitted for each index
    ret,        \* value process_url_full returned in each future
    results,    \* results list, indexed by input position
    failed,     \* failed list
    column,     \* df["Extracted Addresses"]
    pcMain,     \* position of the thread running process_all
    \* one call of process_url_full
    callUrl,    \* its url argument
    callTid,    \* its thread_id argument
    callPc,     \* "call" before the call, "done" after it
    callOut,    \* what the call did and returned
    \* one call of find_subpages
    linkBase,   \* its baseUrl argument
    linkHtml,   \* its html argument
    linkPc,     \* "call" before the call, "done" after it
    linkPages   \* the list it returned

vars == <<urls, fut, ret, results, failed, column, pcMain,
          callUrl, callTid, callPc, callOut,
          linkBase, linkHtml, linkPc, linkPages>>

batchVars == <<urls, fut, ret, results, failed, column, pcMain>>
siteVars  == <<callUrl, callTid, callPc, callOut>>
linkVars  == <<linkBase, linkHtml, linkPc, linkPages>>

\* F applied to the value of a (of a and b, ...): a local variable that is
\* assigned once and read several times
Let1(a, F(_)) == CHOOSE r \in {F(x) : x \in {a}} : TRUE
Let2(a, b, F(_, _)) == CHOOSE r \in {F(x, y) : x \in {a}, y \in {b}} : TRUE
Let3(a, b, c, F(_, _, _)) ==
    CHOOSE r \in {F(x, y, z) : x \in {a}, y \in {b}, z \in {c}} : TRUE

-----------------------------------------------------------------------------
(* Python values *)

Value(type) == [t |-> type, s |-> <<>>, n |-> 0, items |-> <<>>]
Str(s)   == [Value("str") EXCEPT !.s = s]
PyInt(n) == [Value("int") EXCEPT !.n = n]
List(l)  == [Value("list") EXCEPT !.items = l]
None     == Value("None")
NaN      == Value("float")

isinstance_str(x)  == x.t = "str"
isinstance_list(x) == x.t = "list"

-----------------------------------------------------------------------------
(* str methods used by the program *)

Whitespace == {" ", "\t", "\n"}

Upper == <<"A", "B", "C", "D", "E", "F", "G", "H", "I", "J", "K", "L", "M",
           "N", "O", "P", "Q", "R", "S", "T", "U", "V", "W", "X", "Y", "Z">>
Lower == <<"a", "b", "c", "d", "e", "f", "g", "h", "i", "j", "k", "l", "m",
           "n", "o", "p", "q", "r", "s", "t", "u", "v", "w", "x", "y", "z">>
Letters == {Upper[k] : k \in 1..26} \cup {Lower[k] : k \in 1..26}
Digits  == {"0", "1", "2", "3", "4", "5", "6", "7", "8", "9"}

\* the lower-case form of each upper-case letter
UpperToLower ==
    [c \in {Upper[k] : k \in 1..26} |-> Lower[CHOOSE k \in 1..26 : Upper[k] = c]]

lowerChar(c) ==
    Let1(c, LAMBDA x : IF x \in DOMAIN UpperToLower THEN UpperToLower[x] ELSE x)

\* s.lower()
lower(s) == Let1(s, LAMBDA x : [k \in 1..Len(x) |-> lowerChar(x[k])])

\* s[n:] (n counted in characters)
Drop(s, n) == Let1(s, LAMBDA x : SubSeq(x, n + 1, Len(x)))

\* s.startswith(p)
startswith(s, p) ==
    Let2(s, p, LAMBDA x, y : Len(y) <= Len(x) /\ SubSeq(x, 1, Len(y)) = y)

\* the least element of a non-empty set of numbers, 0 for the empty set
Least(S) == Let1(S, LAMBDA X :
    IF X = {} THEN 0 ELSE CHOOSE k \in X : \A j \in X : k <= j)
Greatest(S) == Let1(S, LAMBDA X :
    IF X = {} THEN 0 ELSE CHOOSE k \in X : \A j \in X : j <= k)

\* s.find(sub) + 1: the first position where sub occurs, 0 when it does not
find(s, sub) ==
    Let2(s, sub, LAMBDA x, y :
        Least({k \in 1..(Len(x) - Len(y) + 1) :
                  SubSeq(x, k, k + Len(y) - 1) = y}))

\* sub in s
contains(s, sub) == find(s, sub) # 0

\* s.strip()
strip(s) ==
    Let1(s, LAMBDA x :
        Let1({k \in 1..Len(x) : x[k] \notin Whitespace}, LAMBDA keep :
            IF keep = {} THEN <<>>
            ELSE SubSeq(x, Least(keep), Greatest(keep))))

\* sep.join(xs)
RECURSIVE join(_, _)
join(sep, xs) ==
    Let2(sep, xs, LAMBDA p, l :
        IF l = <<>> THEN <<>>
        ELSE IF Len(l) = 1 THEN l[1]
        ELSE l[1] \o p \o join(p, Tail(l)))

\* s.split(sep)
RECURSIVE split(_, _)
split(s, sep) ==
    Let3(s, sep, find(s, sep), LAMBDA x, p, k :
        IF k = 0 THEN <<x>>
        ELSE <<SubSeq(x, 1, k - 1)>> \o split(Drop(x, k + Len(p) - 1), p))

Range(f) == Let1(f, LAMBDA g : {g[k] : k \in DOMAIN g})

\* every enumeration of a finite set: the orders list(set) can produce
Perms(S) ==
    Let1(S, LAMBDA X :
        {f \in [1..Cardinality(X) -> X] :
            \A a, b \in 1..Cardinality(X) : f[a] = f[b] => a = b})

-----------------------------------------------------------------------------
(* urllib.parse.urljoin, for URLs without query, params or fragment *)

sColon   == <<":">>
sSlash   == <<"/">>
sSlashes == <<"/", "/">>
sDot     == <<".">>
sDotDot  == <<".", ".">>
sHttp    == <<"h", "t", "t", "p">>
sHttps   == <<"h", "t", "t", "p", "s">>

SchemeChars == Letters \cup Digits \cup {"+", "-", "."}

\* the schemes of uses_relative and uses_netloc a page link can carry
uses_relative == {<<>>, sHttp, sHttps}
uses_netloc   == {<<>>, sHttp, sHttps}

\* _splitnetloc: netloc and path of what follows "//"
SplitNetloc(scheme, after) ==
    Let2(after, find(after, sSlash), LAMBDA a, j :
        [scheme |-> scheme,
         netloc |-> IF j = 0 THEN a ELSE SubSeq(a, 1, j - 1),
         path   |-> IF j = 0 THEN <<>> ELSE Drop(a, j - 1)])

\* urlsplit once the scheme is split off
SplitRest(scheme, rest) ==
    Let2(scheme, rest, LAMBDA sch, r :
        IF startswith(r, sSlashes) THEN SplitNetloc(sch, Drop(r, 2))
        ELSE [scheme |-> sch, netloc |-> <<>>, path |-> r])

\* urlsplit(url, scheme=default): scheme, netloc and path
urlsplit(url, default) ==
    Let3(url, default, find(url, sColon), LAMBDA u, d, i :
        IF /\ i > 1
           /\ u[1] \in Letters
           /\ \A k \in 1..(i - 1) : u[k] \in SchemeChars
        THEN SplitRest(lower(SubSeq(u, 1, i - 1)), Drop(u, i))
        ELSE SplitRest(d, u))

\* urlunsplit((scheme, netloc, path, "", ""))
urlunsplit(scheme, netloc, path) ==
    Let3(scheme, netloc, path, LAMBDA sch, loc, p :
        (IF sch # <<>> THEN sch \o sColon ELSE <<>>)
        \o (IF \/ loc # <<>>
               \/ (sch # <<>> /\ sch \in uses_netloc /\ ~startswith(p, sSlashes))
            THEN sSlashes \o loc \o
                 (IF p # <<>> /\ ~startswith(p, sSlash) THEN sSlash ELSE <<>>)
            ELSE <<>>)
        \o p)

\* the "." and ".." handling of urljoin over the merged segments
RECURSIVE RemoveDots(_, _)
RemoveDots(segs, acc) ==
    Let2(segs, acc, LAMBDA s, a :
        IF s = <<>> THEN a
        ELSE IF Head(s) = sDotDot
             THEN RemoveDots(Tail(s),
                             IF a = <<>> THEN a ELSE SubSeq(a, 1, Len(a) - 1))
        ELSE IF Head(s) = sDot THEN RemoveDots(Tail(s), a)
        ELSE RemoveDots(Tail(s), Append(a, Head(s))))

\* segments[1:-1] = filter(None, segments[1:-1])
FilterInner(segs) ==
    Let1(segs, LAMBDA s :
        IF Len(s) < 3 THEN s
        ELSE <<s[1]>>
             \o SelectSeq(SubSeq(s, 2, Len(s) - 1), LAMBDA x : x # <<>>)
             \o <<s[Len(s)]>>)

\* base_parts: the segments of the base path without its last segment
BaseParts(bpath) ==
    Let1(split(bpath, sSlash), LAMBDA parts :
        IF parts[Len(parts)] # <<>>
        THEN SubSeq(parts, 1, Len(parts) - 1) ELSE parts)

\* the resolved path of urljoin
ResolvedPath(bpath, path) ==
    Let1(FilterInner(IF startswith(path, sSlash)
                     THEN split(path, sSlash)
                     ELSE BaseParts(bpath) \o split(path, sSlash)),
         LAMBDA segments :
            Let1(join(sSlash,
                      RemoveDots(segments, <<>>)
                      \o (IF segments[Len(segments)] \in {sDot, sDotDot}
                          THEN <<(<<>>)>> ELSE <<>>)),
                 LAMBDA joined : IF joined = <<>> THEN sSlash ELSE joined))

\* urljoin once base and url are split
JoinSplit(url, b, u) ==
    Let3(url, b, u, LAMBDA whole, bp, up :
        IF up.scheme # bp.scheme \/ up.scheme \notin uses_relative THEN whole
        ELSE IF up.scheme \in uses_netloc /\ up.netloc # <<>>
             THEN urlunsplit(up.scheme, up.netloc, up.path)
        ELSE IF up.path = <<>> THEN urlunsplit(up.scheme, bp.netloc, bp.path)
        ELSE urlunsplit(up.scheme, bp.netloc, ResolvedPath(bp.path, up.path)))

urljoin(base, url) ==
    Let2(base, url, LAMBDA bs, rel :
        IF bs = <<>> THEN rel
        ELSE IF rel = <<>> THEN bs
        ELSE Let1(urlsplit(bs, <<>>), LAMBDA b :
                JoinSplit(rel, b, urlsplit(rel, b.scheme))))

(* scheme and host of a URL *)
Origin(u) == Let1(urlsplit(u, <<>>), LAMBDA p : <<p.scheme, p.netloc>>)

-----------------------------------------------------------------------------
(* HTML documents and page text.                                           *)
(* A document is the sequence of nodes BeautifulSoup parses it into: a     *)
(* text node of n visible characters, an anchor <a href=...> with n        *)
(* characters of inner text, or ("esc") a text node whose characters are   *)
(* the entity-escaped markup of such an anchor (&lt;a href=...&gt;).  The   *)
(* string get_text returns is kept as the sequence of its pieces, which    *)
(* is also what an HTML parser makes of that string.                       *)

TextNode(n)   == [kind |-> "text", href |-> <<>>, n |-> n]
Anchor(h, n)  == [kind |-> "a",    href |-> h,    n |-> n]
Escaped(h, n) == [kind |-> "esc",  href |-> h,    n |-> n]

\* the markup around an anchor's href and inner text
sAnchorTags == <<"<", "a", " ", "h", "r", "e", "f", "=", "\"", "\"", ">",
                 "<", "/", "a", ">">>

\* len() of one piece of a string
PieceLen(node) ==
    Let1(node, LAMBDA nd :
        IF nd.kind = "text" THEN nd.n
        ELSE Len(nd.href) + Len(sAnchorTags) + nd.n)

RECURSIVE SumLen(_)
SumLen(doc) ==
    Let1(doc, LAMBDA d :
        IF d = <<>> THEN 0 ELSE PieceLen(Head(d)) + SumLen(Tail(d)))

\* len(text) of a string made of pieces joined by one space
PyLen(doc) ==
    Let1(doc, LAMBDA d : IF d = <<>> THEN 0 ELSE SumLen(d) + (Len(d) - 1))

\* one node under soup.get_text(separator=" ", strip=True): tags dropped,
\* entities decoded
GetTextNode(node) ==
    Let1(node, LAMBDA nd :
        IF nd.kind = "esc" THEN Anchor(nd.href, nd.n) ELSE TextNode(nd.n))

get_text(doc) == Let1(doc, LAMBDA d : [k \in 1..Len(d) |-> GetTextNode(d[k])])

sContact    == <<"c", "o", "n", "t", "a", "c", "t">>
sLocation   == <<"l", "o", "c", "a", "t", "i", "o", "n">>
sFindUs     == <<"f", "i", "n", "d", "-", "u", "s">>
sGetInTouch == <<"g", "e", "t", "-", "i", "n", "-", "t", "o", "u", "c", "h">>

keywords == {sContact, sLocation, sFindUs, sGetInTouch}

\* soup.find_all("a", href=True)
find_all_a(doc) ==
    Let1(doc, LAMBDA d : {d[k] : k \in {j \in 1..Len(d) : d[j].kind = "a"}})

\* href = link["href"].lower(); any(k in href for k in keywords)
MatchingHrefs(doc) ==
    {href \in {lower(link.href) : link \in find_all_a(doc)} :
        \E k \in keywords : contains(href, k)}

\* the set `pages` of find_subpages (lines 110-118)
find_subpages(baseUrl, html) ==
    Let1(baseUrl, LAMBDA base :
        {urljoin(base, href) : href \in MatchingHrefs(html)})

-----------------------------------------------------------------------------
(* fetch_page_text *)

\* requests.get refuses a URL without an http(s) scheme and host
IsHttpUrl(url) ==
    Let1(urlsplit(url, <<>>), LAMBDA p :
        p.scheme \in {sHttp, sHttps} /\ p.netloc # <<>>)

\* what a GET can come back with: an exception (timeout, connection error,
\* invalid URL) or a status and a body
Exc == [exc |-> TRUE, status_code |-> 0, body |-> <<>>]
Response(status, body) == [exc |-> FALSE, status_code |-> status, body |-> body]

\* res = requests.get(url, ...) when the site would answer resp
requests_get(url, resp) == IF IsHttpUrl(url) THEN resp ELSE Exc

fetch_page_text(url, resp) ==
    Let1(requests_get(url, resp), LAMBDA res :
        IF res.exc THEN <<>>
        ELSE IF res.status_code = 200 THEN get_text(res.body)
        ELSE <<>>)

-----------------------------------------------------------------------------
(* gpt_extract_chunked_text *)

OPENAI_KEYS == <<"openai_api_key">>

\* get_client: the key the client of this thread is built with
get_client(thread_id) == OPENAI_KEYS[(thread_id % Len(OPENAI_KEYS)) + 1]

\* The text of a completion: a Python literal (body), or prose that is no
\* literal; possibly wrapped in a markdown code fence (fence), possibly
\* with whitespace around it (pad).
Prose == Value("prose")
Text(body)   == [pad |-> FALSE, fence |-> FALSE, body |-> body]
Fenced(body) == [pad |-> FALSE, fence |-> TRUE,  body |-> body]
Padded(body) == [pad |-> TRUE,  fence |-> FALSE, body |-> body]

\* content.strip()
strip_content(content) == [content EXCEPT !.pad = FALSE]

\* ast.literal_eval(raw_output): the value, or an exception
Raise == Value("exception")
literal_eval(raw_output) ==
    Let1(raw_output, LAMBDA raw :
        IF raw.pad \/ raw.fence \/ raw.body.t = "prose" THEN Raise
        ELSE raw.body)

\* what client.chat.completions.create can do for one chunk
ApiError == [ok |-> FALSE, content |-> Text(Prose)]
Completion(content) == [ok |-> TRUE, content |-> content]

\* lines 78-81: what a completion's text adds to all_addresses
Extracted(content) ==
    Let1(literal_eval(strip_content(content)), LAMBDA extracted :
        IF extracted.t = "exception" THEN <<>>
        ELSE IF isinstance_list(extracted) THEN extracted.items
        ELSE <<>>)

\* one pass of the loop body (lines 71-83): what the chunk adds
ChunkAdds(reply) ==
    Let1(reply, LAMBDA r : IF ~r.ok THEN <<>> ELSE Extracted(r.content))

\* all_addresses after the loop (lines 59-83)
RECURSIVE AllAddresses(_)
AllAddresses(replies) ==
    Let1(replies, LAMBDA rs :
        IF rs = <<>> THEN <<>>
        ELSE ChunkAdds(Head(rs)) \o AllAddresses(Tail(rs)))

\* iterating over parts: the items of a list, the characters of a str
Iterable(parts) == parts.t \in {"list", "str"}
Items(parts) ==
    Let1(parts, LAMBDA ps :
        IF ps.t = "str" THEN [k \in 1..Len(ps.s) |-> Str(<<ps.s[k]>>)]
        ELSE ps.items)

sCommaSpace == <<",", " ">>
sBar        == <<" ", "|", " ">>

\* ", ".join(p.strip() for p in parts) raises on this parts
FlatRaises(parts) ==
    Let1(parts, LAMBDA ps :
        \/ ~Iterable(ps)
        \/ \E p \in Range(Items(ps)) : ~isinstance_str(p))

\* flat (line 89)
Flat(parts) ==
    Let1(Items(parts), LAMBDA items :
        join(sCommaSpace, [k \in 1..Len(items) |-> strip(items[k].s)]))

\* cleaned (lines 86-92): the flat strings, first occurrences only
RECURSIVE Cleaned(_, _)
Cleaned(all_addresses, seen) ==
    Let2(all_addresses, seen, LAMBDA all, sn :
        IF all = <<>> THEN <<>>
        ELSE Let1(Flat(Head(all)), LAMBDA flat :
                IF flat \notin sn
                THEN <<flat>> \o Cleaned(Tail(all), sn \cup {flat})
                ELSE Cleaned(Tail(all), sn)))

\* lines 85-94 on all_addresses
MergeAddresses(client, calls, all_addresses) ==
    Let2(all_addresses,
         \E parts \in Range(all_addresses) : FlatRaises(parts),
         LAMBDA all, raises :
            [client |-> client,
             calls  |-> calls,
             raised |-> raises,
             ret    |-> IF raises THEN None
                        ELSE IF all # <<>>
                             THEN Str(join(sBar, Cleaned(all, {})))
                        ELSE Str(<<>>)])

\* gpt_extract_chunked_text, given the reply the capability makes to each
\* chunk: the value returned, or raised = TRUE when an exception leaves it
gpt_extract_chunked_text(chunks, thread_id, replies) ==
    Let1(chunks, LAMBDA cs :
        MergeAddresses(get_client(thread_id), Len(cs),
                       AllAddresses(SubSeq(replies, 1, Len(cs)))))

-----------------------------------------------------------------------------
(* process_url_full *)

ChunkSize == 12000

sHttpsPrefix == <<"h", "t", "t", "p", "s", ":", "/", "/">>
sHttpPrefix  == <<"h", "t", "t", "p", ":", "/", "/">>

\* line 123
InvalidUrl(url) ==
    Let1(url, LAMBDA u : ~isinstance_str(u) \/ strip(u.s) = <<>>)

\* lines 126-127
Normalized(url) ==
    Let1(url, LAMBDA u :
        IF ~startswith(u.s, sHttp) THEN sHttpsPrefix \o strip(u.s) ELSE u.s)

\* the texts the loop over sub_links appends (lines 136-139)
RECURSIVE SubTexts(_, _)
SubTexts(order, subs) ==
    Let2(order, subs, LAMBDA o, s :
        IF o = <<>> THEN <<>>
        ELSE Let1(fetch_page_text(Head(o), Head(s)), LAMBDA sub_text :
                (IF sub_text # <<>> THEN <<sub_text>> ELSE <<>>)
                \o SubTexts(Tail(o), Tail(s))))

\* all_text after lines 129-139
AllText(main_text, order, subs) ==
    Let1(main_text, LAMBDA mt :
        (IF mt # <<>> THEN <<mt>> ELSE <<>>) \o SubTexts(order, subs))

\* combined (line 141): the texts joined by one space
RECURSIVE Combined(_)
Combined(all_text) ==
    Let1(all_text, LAMBDA ts :
        IF ts = <<>> THEN <<>> ELSE Head(ts) \o Combined(Tail(ts)))

\* chunks (line 142), each chunk by the number of its characters
Chunks(combined) ==
    Let1(PyLen(combined), LAMBDA n :
        [k \in 1..((n + ChunkSize - 1) \div ChunkSize) |->
            IF k * ChunkSize <= n THEN ChunkSize ELSE n - (k - 1) * ChunkSize])

\* lines 129-143 on the normalized url and the text of the main page
Crawl(url, thread_id, env, main_text) ==
    Let3(env, main_text,
         Combined(AllText(main_text, env.order, env.subs)),
         LAMBDA e, mt, combined :
            Let1(gpt_extract_chunked_text(Chunks(combined), thread_id, e.llm),
                 LAMBDA out :
                    [ret       |-> out.ret,
                     raised    |-> out.raised,
                     fetched   |-> <<url>> \o e.order,
                     calls     |-> out.calls,
                     main      |-> requests_get(url, e.main),
                     sub_links |-> find_subpages(url, mt),
                     given     |-> combined,
                     replies   |-> e.llm]))

\* the record of a call that has fetched nothing
NoCall == [ret |-> None, raised |-> FALSE, fetched |-> <<>>, calls |-> 0,
           main |-> Exc, sub_links |-> {}, given |-> <<>>, replies |-> <<>>]

\* process_url_full in the environment env: main is the answer to the GET
\* of the main page, order the order in which list(pages) lists the
\* subpages, subs the answers to their GETs, llm the capability's reply to
\* each chunk.  The record tells what the call did and returned.
process_url_full(url, thread_id, env) ==
    Let1(url, LAMBDA u :
        IF InvalidUrl(u) THEN [NoCall EXCEPT !.ret = Str(<<>>)]
        ELSE Let1(Normalized(u), LAMBDA norm :
                Crawl(norm, thread_id, env, fetch_page_text(norm, env.main))))

-----------------------------------------------------------------------------
(* The inputs the model draws from *)

MaxUrls  == 2   \* rows of the uploaded sheet
MaxNodes == 2   \* nodes of a document given to find_subpages

sAIo       == <<"a", ".", "i", "o">>
sSpAIo     == <<" ", "a", ".", "i", "o">>
sHttpAIo   == <<"h", "t", "t", "p", ":", "/", "/", "a", ".", "i", "o">>
sHttpsAIo  == <<"h", "t", "t", "p", "s", ":", "/", "/", "a", ".", "i", "o">>
sHttpsAIoPQ == <<"h", "t", "t", "p", "s", ":", "/", "/", "a", ".", "i", "o",
                 "/", "p", "/", "q">>
sHttpaIo   == <<"h", "t", "t", "p", "a", ".", "i", "o">>
sExample   == <<"h", "t", "t", "p", "s", ":", "/", "/", "e", "x", "a", "m",
                "p", "l", "e", ".", "c", "o", "m">>

\* values of a cell of the URL column: not a string, blank, without a
\* scheme, with one, and a host name that happens to begin with "http"
Cells == {NaN, Str(<<>>), Str(<<" ">>), Str(sAIo), Str(sSpAIo),
          Str(sHttpAIo), Str(sHttpaIo)}

hContactUs    == <<"/", "c", "o", "n", "t", "a", "c", "t", "-", "u", "s">>
hContactUsUC  == <<"/", "C", "o", "n", "t", "a", "c", "t", "-", "U", "s">>
hOtherHost    == <<"h", "t", "t", "p", "s", ":", "/", "/", "b", ".", "i", "o",
                   "/", "c", "o", "n", "t", "a", "c", "t">>
hAbsoluteUC   == <<"h", "t", "t", "p", "s", ":", "/", "/", "a", ".", "i", "o",
                   "/", "C", "o", "n", "t", "a", "c", "t">>
hRelative     == <<"l", "o", "c", "a", "t", "i", "o", "n">>
hAbout        == <<"/", "a", "b", "o", "u", "t">>
hNetworkPath  == <<"/", "/", "b", ".", "i", "o", "/", "f", "i", "n", "d",
                   "-", "u", "s">>

Hrefs == {hContactUs, hContactUsUC, hOtherHost, hAbsoluteUC, hRelative,
          hAbout, hNetworkPath}

\* arguments of find_subpages
LinkBases == {sHttpsAIo, sHttpAIo, sHttpsAIoPQ, sHttpaIo, sExample}
LinkNodes == {TextNode(7)} \cup {Anchor(h, 7) : h \in Hrefs}
LinkHtmls == UNION {[1..n -> LinkNodes] : n \in 0..MaxNodes}

\* bodies a site answers with: empty, text only, text and a contact link,
\* a page that shows the markup of a link as text, a page longer than a chunk
Bodies == {<<>>,
           <<TextNode(40)>>,
           <<TextNode(40), Anchor(hContactUsUC, 7)>>,
           <<Escaped(hContactUs, 7)>>,
           <<TextNode(ChunkSize), TextNode(40)>>}

Responses == {Exc, Response(404, <<>>)} \cup {Response(200, b) : b \in Bodies}

sStreet  == <<"1", " ", "A", " ", "S", "t">>
sStreetP == <<" ", "1", " ", "A", " ", "S", "t", " ">>
sCity    == <<"X">>
sState   == <<"Y", "Y">>
sZip     == <<"0", "0", "0", "0", "0">>
sUnknown == <<"U", "n", "k", "n", "o", "w", "n">>

Tuple4(street) == List(<<Str(street), Str(sCity), Str(sState), Str(sZip)>>)

\* values the capability's text can denote
Payloads == {List(<<Tuple4(sStreet)>>),          \* one address
             List(<<Tuple4(sStreetP)>>),         \* the same, padded street
             List(<<>>),                         \* []
             List(<<List(<<>>)>>),               \* [[]]
             List(<<List(<<Str(<<" ">>)>>)>>),   \* [[" "]]
             List(<<PyInt(1), PyInt(2)>>),       \* [1, 2]
             List(<<List(<<PyInt(1), Str(sCity)>>)>>), \* [[1, "X"]]
             List(<<List(<<Str(sUnknown)>>)>>),  \* [["Unknown"]]
             PyInt(42)}                          \* 42

Replies == {ApiError, Completion(Text(Prose)),
            Completion(Fenced(List(<<Tuple4(sStreet)>>))),
            Completion(Padded(List(<<Tuple4(sStreet)>>)))}
           \cup {Completion(Text(v)) : v \in Payloads}

\* the environments one call of process_url_full can meet
EnvsAfterSubs(main_text, m, o, s) ==
    {[main |-> m, order |-> o, subs |-> s, llm |-> l] :
        l \in [1..Len(Chunks(Combined(AllText(main_text, o, s)))) -> Replies]}

EnvsAfterMain(url, m, main_text) ==
    Let2(main_text, find_subpages(url, main_text), LAMBDA mt, sub_links :
        UNION {EnvsAfterSubs(mt, m, o, s) :
                 o \in Perms(sub_links),
                 s \in [1..Cardinality(sub_links) -> Responses]})

SiteEnvs(url) ==
    Let1(url, LAMBDA u :
        IF InvalidUrl(u)
        THEN {[main |-> Exc, order |-> <<>>, subs |-> <<>>, llm |-> <<>>]}
        ELSE Let1(Normalized(u), LAMBDA norm :
                UNION {EnvsAfterMain(norm, m, fetch_page_text(norm, m)) :
                         m \in Responses}))

-----------------------------------------------------------------------------
(* One call of find_subpages *)

IdleLinks ==
    /\ linkBase = <<>> /\ linkHtml = <<>> /\ linkPc = "idle" /\ linkPages = <<>>

InitLinks ==
    /\ linkBase \in LinkBases
    /\ linkHtml \in LinkHtmls
    /\ linkPc = "call"
    /\ linkPages = <<>>

\* return list(pages): the set in some order
FindSubpages ==
    /\ linkPc = "call"
    /\ \E order \in Perms(find_subpages(linkBase, linkHtml)) :
           linkPages' = order
    /\ linkPc' = "done"
    /\ UNCHANGED <<linkBase, linkHtml>>
    /\ UNCHANGED <<batchVars, siteVars>>

-----------------------------------------------------------------------------
(* One call of process_url_full *)

IdleSite ==
    /\ callUrl = None /\ callTid = 0 /\ callPc = "idle" /\ callOut = NoCall

InitSite ==
    /\ callUrl \in Cells
    /\ callTid \in 0..(MaxUrls - 1)
    /\ callPc = "call"
    /\ callOut = NoCall

ProcessUrlFull ==
    /\ callPc = "call"
    /\ \E env \in SiteEnvs(callUrl) :
           callOut' = process_url_full(callUrl, callTid, env)
    /\ callPc' = "done"
    /\ UNCHANGED <<callUrl, callTid>>
    /\ UNCHANGED <<batchVars, linkVars>>

-----------------------------------------------------------------------------
(* process_all *)

max_workers == 10

\* what a future of process_url_full(url, thread_id) can end with
FutureOutcomes ==
    [url \in Cells |-> [thread_id \in 0..(MaxUrls - 1) |->
        {[raised |-> o.raised, ret |-> o.ret] :
            o \in {process_url_full(url, thread_id, env) :
                      env \in SiteEnvs(url)}}]]

sUnknownStr == Str(sUnknown)

\* results[i] as lines 160-167 set it from a finished future
ResultEntry(future) ==
    IF future.raised THEN sUnknownStr
    ELSE IF ~isinstance_str(future.ret) THEN sUnknownStr
    ELSE IF strip(future.ret.s) # <<>> THEN future.ret ELSE sUnknownStr

\* FailedAfter without the append of the except branch (line 167)
FailedAfterNoExcept(failedList, url, future) ==
    IF future.raised THEN failedList
    ELSE IF ~isinstance_str(future.ret) THEN Append(failedList, url)
    ELSE IF strip(future.ret.s) = <<>> THEN Append(failedList, url)
    ELSE failedList

\* failed as lines 160-167 leave it
FailedAfter(failedList, url, future) ==
    IF future.raised THEN Append(failedList, url)
    ELSE IF ~isinstance_str(future.ret) THEN Append(failedList, url)
    ELSE IF strip(future.ret.s) = <<>> THEN Append(failedList, url)
    ELSE failedList

IdleBatch ==
    /\ urls = <<>> /\ fut = <<>> /\ ret = <<>> /\ results = <<>>
    /\ failed = <<>> /\ column = None /\ pcMain = "idle"

\* process_all is entered: lines 147-151
InitBatch ==
    /\ urls \in UNION {[1..n -> Cells] : n \in 0..MaxUrls}
    /\ results = [i \in DOMAIN urls |-> None]
    /\ failed = <<>>
    /\ fut = [i \in DOMAIN urls |-> "new"]
    /\ ret = [i \in DOMAIN urls |-> None]
    /\ column = None
    /\ pcMain = "submit"

\* line 154: one future per row, thread_id the row's index
Submit ==
    /\ pcMain = "submit"
    /\ fut' = [i \in DOMAIN urls |-> "pending"]
    /\ pcMain' = "collect"
    /\ UNCHANGED <<urls, ret, results, failed, column>>
    /\ UNCHANGED <<siteVars, linkVars>>

\* a pool thread takes the oldest pending future
Start(i) ==
    /\ fut[i] = "pending"
    /\ \A j \in 1..(i - 1) : fut[j] # "pending"
    /\ Cardinality({j \in DOMAIN urls : fut[j] = "running"}) < max_workers
    /\ fut' = [fut EXCEPT ![i] = "running"]
    /\ UNCHANGED <<urls, ret, results, failed, column, pcMain>>
    /\ UNCHANGED <<siteVars, linkVars>>

\* process_url_full(urls[i], i) returns or raises in its thread
Complete(i) ==
    /\ fut[i] = "running"
    /\ \E o \in FutureOutcomes[urls[i]][i - 1] :
           /\ ret' = [ret EXCEPT ![i] = o.ret]
           /\ fut' = [fut EXCEPT ![i] = IF o.raised THEN "raised" ELSE "done"]
    /\ UNCHANGED <<urls, results, failed, column, pcMain>>
    /\ UNCHANGED <<siteVars, linkVars>>

\* one pass of the loop over as_completed(futures): lines 158-167
Collect(i) ==
    /\ pcMain = "collect"
    /\ fut[i] \in {"done", "raised"}
    /\ LET future == [raised |-> fut[i] = "raised", ret |-> ret[i]]
       IN  /\ results' = [results EXCEPT ![i] = ResultEntry(future)]
           /\ failed' = FailedAfter(failed, urls[i], future)
    /\ fut' = [fut EXCEPT ![i] = "collected"]
    /\ UNCHANGED <<urls, ret, column, pcMain>>
    /\ UNCHANGED <<siteVars, linkVars>>

\* lines 175-176, once as_completed is exhausted
Return ==
    /\ pcMain = "collect"
    /\ \A i \in DOMAIN urls : fut[i] = "collected"
    /\ column' = List(results)
    /\ pcMain' = "returned"
    /\ UNCHANGED <<urls, fut, ret, results, failed>>
    /\ UNCHANGED <<siteVars, linkVars>>

-----------------------------------------------------------------------------
(* Specifications *)

Init == InitBatch /\ IdleSite /\ IdleLinks

Next ==
    \/ Submit
    \/ \E i \in DOMAIN urls : Start(i)
    \/ \E i \in DOMAIN urls : Complete(i)
    \/ \E i \in DOMAIN urls : Collect(i)
    \/ Return

Spec == Init /\ [][Next]_vars

InitSiteSpec == IdleBatch /\ InitSite /\ IdleLinks
NextSite == ProcessUrlFull
SpecSite == InitSiteSpec /\ [][NextSite]_vars

InitLinksSpec == IdleBatch /\ IdleSite /\ InitLinks
NextLinks == FindSubpages
SpecLinks == InitLinksSpec /\ [][NextLinks]_vars

-----------------------------------------------------------------------------
(* Properties of process_all (Spec) *)

\* row i succeeded: the column carries the address string its call returned
Succeeded(i) ==
    /\ isinstance_str(ret[i])
    /\ strip(ret[i].s) # <<>>
    /\ column.items[i] = ret[i]

Occurrences(seq, c) == Cardinality({k \in DOMAIN seq : seq[k] = c})

\* C1: when process_all returns, every row is in exactly one of the two
\* result sets: either the column carries the address string its call
\* returned, or the column says "Unknown" and the failed list has one entry
\* for it; so the successes and the failures together count the rows.
C1_Partition ==
    pcMain = "returned" =>
        /\ Len(column.items) = Len(urls)
        /\ \A i \in DOMAIN urls : ~Succeeded(i) => column.items[i] = sUnknownStr
        /\ \A c \in Cells :
              Occurrences(failed, c)
                = Cardinality({i \in DOMAIN urls : urls[i] = c /\ ~Succeeded(i)})
        /\ Cardinality({i \in DOMAIN urls : Succeeded(i)}) + Len(failed)
             = Len(urls)

\* a returned batch holding the same URL twice, once succeeding, once failing
C1_Witness ==
    /\ pcMain = "returned"
    /\ Len(urls) = 2
    /\ urls[1] = urls[2]
    /\ Succeeded(1)
    /\ ~Succeeded(2)
    /\ failed = <<urls[2]>>

\* seq lists some of the rows of whole, in the order of whole
InInputOrder(seq, whole) ==
    \E f \in [DOMAIN seq -> DOMAIN whole] :
        /\ \A k \in DOMAIN seq : whole[f[k]] = seq[k]
        /\ \A j, k \in DOMAIN seq : j < k => f[j] < f[k]

\* C2: whatever the order in which the futures complete, the output is in
\* input order: entry i of the column belongs to row i, and the failed list
\* lists the failed URLs in the order of the input.
C2_InputOrder ==
    pcMain = "returned" =>
        /\ \A i \in DOMAIN urls : column.items[i] \in {ret[i], sUnknownStr}
        /\ InInputOrder(failed, urls)

-----------------------------------------------------------------------------
(* Properties of process_url_full and gpt_extract_chunked_text (SpecSite) *)

sInvalidUrl == <<"I", "n", "v", "a", "l", "i", "d", " ", "U", "R", "L">>

\* C3: a call with an empty, blank or non-string url fetches no page, calls
\* the capability for no chunk, and returns the failure whose reason is
\* "Invalid URL".
C3_InvalidUrlFailed ==
    (callPc = "done" /\ InvalidUrl(callUrl)) =>
        /\ callOut.fetched = <<>>
        /\ callOut.calls = 0
        /\ ~callOut.raised
        /\ callOut.ret = Str(sInvalidUrl)

\* C4: for a non-blank string, the URL given to fetch_page_text for the main
\* page begins with "http://" or "https://".
C4_SchemeNormalized ==
    (callPc = "done" /\ ~InvalidUrl(callUrl)) =>
        /\ callOut.fetched # <<>>
        /\ \/ startswith(callOut.fetched[1], sHttpPrefix)
           \/ startswith(callOut.fetched[1], sHttpsPrefix)

\* the anchors of a document whose href contains a keyword, in any case
KeywordAnchors(doc) ==
    {a \in find_all_a(doc) : \E k \in keywords : contains(lower(a.href), k)}

\* C5: when the main page comes back with status 200, every anchor of its
\* HTML whose href contains a keyword is discovered and its page fetched.
C5_SubpagesOfMainHtml ==
    (callPc = "done" /\ ~callOut.main.exc /\ callOut.main.status_code = 200) =>
        \A a \in KeywordAnchors(callOut.main.body) :
            \E k \in 2..Len(callOut.fetched) :
                lower(callOut.fetched[k])
                  = lower(urljoin(callOut.fetched[1], a.href))

\* C8: no reply of the capability makes the call raise: it returns a value.
C8_NeverRaises ==
    callPc = "done" => (~callOut.raised /\ isinstance_str(callOut.ret))

\* a reply that is a list of tuples of four strings inside a code fence
FencedAddressList(reply) ==
    /\ reply.ok
    /\ reply.content.fence
    /\ isinstance_list(reply.content.body)
    /\ reply.content.body.items # <<>>
    /\ \A k \in DOMAIN reply.content.body.items :
          LET tuple == reply.content.body.items[k]
          IN  /\ isinstance_list(tuple)
              /\ Len(tuple.items) = 4
              /\ \A j \in 1..4 : isinstance_str(tuple.items[j])

\* the " | "-separated entries of the string a call returned
Entries == Range(split(callOut.ret.s, sBar))

\* C9: when the reply for a chunk is a valid list of 4-tuples in a code
\* fence, the addresses in it are among the entries of the result.
C9_FenceStripped ==
    (callPc = "done" /\ ~callOut.raised) =>
        \A k \in 1..callOut.calls :
            FencedAddressList(callOut.replies[k]) =>
                \A j \in DOMAIN callOut.replies[k].content.body.items :
                    Flat(callOut.replies[k].content.body.items[j]) \in Entries

\* C10: every " | "-separated entry of a returned address string is
\* non-empty after trimming.
C10_NoEmptyCandidate ==
    (callPc = "done" /\ ~callOut.raised /\ callOut.ret.s # <<>>) =>
        \A e \in Entries : strip(e) # <<>>

-----------------------------------------------------------------------------
(* Properties of find_subpages (SpecLinks) *)

\* C6: every URL find_subpages returns has the scheme and host of baseUrl.
C6_SameOrigin ==
    linkPc = "done" =>
        \A k \in DOMAIN linkPages : Origin(linkPages[k]) = Origin(linkBase)

\* the resolution of an href the specification describes
IsAbsolute(href) ==
    startswith(href, sHttpPrefix) \/ startswith(href, sHttpsPrefix)
OriginOf(base) ==
    LET p == urlsplit(base, <<>>) IN p.scheme \o sColon \o sSlashes \o p.netloc
Resolved(base, href) ==
    IF IsAbsolute(href) THEN href
    ELSE IF startswith(href, sSlash) /\ ~startswith(href, sSlashes)
         THEN OriginOf(base) \o href
    ELSE urljoin(base, href)

\* C7: for a base with scheme and host, every anchor whose href contains a
\* keyword is returned resolved: against the origin when it starts with
\* "/", as it is, character for character, when it is absolute.
C7_ResolvedAsIs ==
    (linkPc = "done" /\ IsHttpUrl(linkBase)) =>
        \A a \in KeywordAnchors(linkHtml) :
            Resolved(linkBase, a.href) \in Range(linkPages)

====
